---- MODULE Spec2Model ----
(***************************************************************************)
(* Model of streamlit_dashboard.py: one render pass of the dashboard is    *)
(* one top-to-bottom execution of the script (page header, file check,     *)
(* cached load, sidebar controls, filters, five charts, footer); a rerun   *)
(* starts the next pass.  Only the cache of carregar_dados survives a      *)
(* pass.                                                                   *)
(*                                                                         *)
(* Numbers.  Real-valued columns are modelled by integers, a quotient that *)
(* the code computes in floating point is kept as a pair <<num, den>>.     *)
(* The vulnerability index and the slider are in hundredths (step 0.01).   *)
(* A Timestamp is a number of ticks, a calendar date a number of days.     *)
(* A date cell of the CSV file is the day number it spells, or NotADate    *)
(* for a text that pandas cannot parse as a date.                          *)
(***************************************************************************)
EXTENDS Integers, Sequences, FiniteSets, TLC

VARIABLES
    file,          \* dados_integrados.csv on disk (static during a session)
    cache,         \* st.cache_data store of carregar_dados: path -> table
    reads,         \* number of times pd.read_csv opened the file
    calls,         \* number of times carregar_dados was called
    passes,        \* number of render passes started
    pc,            \* position of the running pass in the script
    exc,           \* uncaught exception that ended the pass ("" if none)
    out,           \* elements emitted to the page by the running pass
    _df,           \* table returned by carregar_dados
    periodo,       \* value returned by st.sidebar.date_input
    dt_ini,        \* start bound (Timestamp), NoTime before it is assigned
    dt_fim,        \* end bound (Timestamp), NoTime before it is assigned
    faixa_vul,     \* value returned by the slider, <<low, high>>
    agua_opcao,    \* value returned by the water selectbox
    tipo_opcao,    \* value returned by the event selectbox
    df,            \* the filtered table
    df_sorted,     \* df.sort_values("data")
    chuva_rol,     \* rainfall series plotted by chart 1
    producao_rol,  \* production series plotted by chart 1
    numeric_cols,  \* columns the correlation matrix is computed over
    radar_values   \* the five components plotted by chart 5 (closed polygon)

vars == <<file, cache, reads, calls, passes, pc, exc, out, _df, periodo,
          dt_ini, dt_fim, faixa_vul, agua_opcao, tipo_opcao, df, df_sorted,
          chuva_rol, producao_rol, numeric_cols, radar_values>>

(***************************************************************************)
(* Bounds of the model.                                                    *)
(***************************************************************************)
MaxRows == 32      \* longest dataset
MaxSmallRows == 3  \* every size up to this one is a dataset size
MaxPasses == 2     \* render passes per session
NSeeds == 3        \* dataset layouts

(***************************************************************************)
(* Program constants.                                                      *)
(***************************************************************************)
DATA_PATH == "dados_integrados.csv"
JanelaChuva == 30
JanelaProducao == 7
EscalaClima == 200
EscalaProducao == 20
EscalaDoencas == 6
EscalaAlimentar == 100
SliderMax == 100
TicksPerDay == 24
NotADate == 0 - 1
NoTime == 0 - 1

MsgArquivo == [kind |-> "error", text |-> "Arquivo 'dados_integrados.csv' nao encontrado na pasta do app."]
MsgPeriodo == [kind |-> "sidebar.error", text |-> "Data inicial nao pode ser maior que final."]
MsgVazio == [kind |-> "warning", text |-> "Nenhum dado encontrado para os filtros selecionados."]
Title == [kind |-> "title", text |-> "Dashboard Amazonia - Clima, Producao e Saude"]
Widget(label) == [kind |-> "widget", text |-> label]
Header(label) == [kind |-> "header", text |-> label]
Chart(name) == [kind |-> "chart", text |-> name]

(***************************************************************************)
(* Tables.  A table is a set of column names and a sequence of rows, each  *)
(* row a function from the column names to values; date_dtype tells        *)
(* whether the "data" column holds Timestamps.                             *)
(***************************************************************************)
EmptyTable == [columns |-> {}, rows |-> <<>>, date_dtype |-> "none"]

BaseColumns == {"data", "indice_vulnerabilidade", "acesso_agua_potavel",
                "chuvas_reais_mm", "volume_producao_tons",
                "anomalia_chuva_mm", "incidencia_doencas",
                "indicador_seguranca_alimentar"}
OptionalColumns == {"variacao_climatica", "flag_incidente_alta",
                    "chuva_rol_30d", "producao_rol_7d"}

(***************************************************************************)
(* The input files of the model.  RowKinds are the measurements a record   *)
(* can carry; File(n, s, opt) is a CSV of n records whose kinds and dates  *)
(* follow layout s (dates ascending, descending, or ascending with the     *)
(* first two records on the same day) and whose optional columns are opt.  *)
(***************************************************************************)
RowKinds ==
    << [indice_vulnerabilidade |-> 10, acesso_agua_potavel |-> 1,
        variacao_climatica |-> 1, flag_incidente_alta |-> 0,
        chuvas_reais_mm |-> 0, volume_producao_tons |-> 25,
        anomalia_chuva_mm |-> 0 - 250, incidencia_doencas |-> 0,
        indicador_seguranca_alimentar |-> 100,
        chuva_rol_30d |-> 3, producao_rol_7d |-> 25],
       [indice_vulnerabilidade |-> 50, acesso_agua_potavel |-> 0,
        variacao_climatica |-> 0, flag_incidente_alta |-> 1,
        chuvas_reais_mm |-> 12, volume_producao_tons |-> 10,
        anomalia_chuva_mm |-> 150, incidencia_doencas |-> 9,
        indicador_seguranca_alimentar |-> 0,
        chuva_rol_30d |-> 6, producao_rol_7d |-> 17],
       [indice_vulnerabilidade |-> 90, acesso_agua_potavel |-> 1,
        variacao_climatica |-> 1, flag_incidente_alta |-> 1,
        chuvas_reais_mm |-> 30, volume_producao_tons |-> 0,
        anomalia_chuva_mm |-> 0, incidencia_doencas |-> 3,
        indicador_seguranca_alimentar |-> 120,
        chuva_rol_30d |-> 14, producao_rol_7d |-> 11],
       [indice_vulnerabilidade |-> 40, acesso_agua_potavel |-> 0,
        variacao_climatica |-> 0, flag_incidente_alta |-> 0,
        chuvas_reais_mm |-> 7, volume_producao_tons |-> 20,
        anomalia_chuva_mm |-> 200, incidencia_doencas |-> 6,
        indicador_seguranca_alimentar |-> 50,
        chuva_rol_30d |-> 7, producao_rol_7d |-> 20] >>

KindOf(s, i) == RowKinds[((i * s) % Len(RowKinds)) + 1]

DayOf(n, s, i) ==
    CASE s % 3 = 2 -> n + 1 - i
      [] s % 3 = 0 -> IF i = 1 /\ n > 1 THEN 2 ELSE i
      [] OTHER -> i

FileRow(n, s, i, cols) ==
    [c \in cols |-> IF c = "data" THEN DayOf(n, s, i) ELSE KindOf(s, i)[c]]

File(n, s, opt) ==
    [exists |-> TRUE,
     columns |-> BaseColumns \cup opt,
     rows |-> [i \in 1..n |-> FileRow(n, s, i, BaseColumns \cup opt)]]

\* The file is absent.
MissingFile == [exists |-> FALSE, columns |-> {}, rows |-> <<>>]

\* The file has no "data" column.
NoDateColumnFile(n, s) ==
    [exists |-> TRUE,
     columns |-> BaseColumns \ {"data"},
     rows |-> [i \in 1..n |-> FileRow(n, s, i, BaseColumns \ {"data"})]]

\* The "data" column of the file holds texts that are not dates.
BadDatesFile(n, s) ==
    [exists |-> TRUE,
     columns |-> BaseColumns,
     rows |-> [i \in 1..n |-> [FileRow(n, s, i, BaseColumns) EXCEPT !["data"] = NotADate]]]

RowCounts == {n \in 1..MaxRows : n <= MaxSmallRows \/ n = JanelaProducao + 1 \/ n > JanelaChuva}

OptionalSets ==
    { {},
      {"variacao_climatica"},
      {"flag_incidente_alta", "producao_rol_7d"},
      {"variacao_climatica", "flag_incidente_alta", "chuva_rol_30d"},
      OptionalColumns }

(***************************************************************************)
(* carregar_dados: pd.read_csv(path_csv, parse_dates=["data"]).            *)
(***************************************************************************)
\* pandas' date parser on one cell: a Timestamp at midnight of the day.
ParseDate(text) == text * TicksPerDay

\* Timestamp.date(): the calendar day of a Timestamp.
DateOf(ts) == ts \div TicksPerDay

\* pd.to_datetime(date): midnight of the day.
to_datetime(d) == d * TicksPerDay

\* read_csv raises when the file or a parse_dates column is missing; a
\* column with a cell that is no date is returned unconverted (dtype object).
read_csv(f) ==
    IF ~f.exists
    THEN [raised |-> "FileNotFoundError", table |-> EmptyTable]
    ELSE IF "data" \notin f.columns
    THEN [raised |-> "ValueError", table |-> EmptyTable]
    ELSE IF \A i \in 1..Len(f.rows) : f.rows[i]["data"] # NotADate
    THEN [raised |-> "",
          table |-> [columns |-> f.columns,
                     rows |-> [i \in 1..Len(f.rows) |->
                                 [f.rows[i] EXCEPT !["data"] = ParseDate(@)]],
                     date_dtype |-> "datetime64"]]
    ELSE [raised |-> "",
          table |-> [columns |-> f.columns, rows |-> f.rows,
                     date_dtype |-> "object"]]

(***************************************************************************)
(* Helpers on tables and series.                                           *)
(***************************************************************************)
Column(t, c) == [i \in 1..Len(t.rows) |-> t.rows[i][c]]

RECURSIVE SumSeq(_)
SumSeq(s) == IF s = <<>> THEN 0 ELSE s[1] + SumSeq(Tail(s))

SeqMin(s) == CHOOSE x \in {s[i] : i \in 1..Len(s)} : \A j \in 1..Len(s) : x <= s[j]
SeqMax(s) == CHOOSE x \in {s[i] : i \in 1..Len(s)} : \A j \in 1..Len(s) : x >= s[j]

Abs(x) == IF x < 0 THEN 0 - x ELSE x

(***************************************************************************)
(* Sidebar: the values the controls can return.                            *)
(***************************************************************************)
UnsetPeriodo == [kind |-> "unset", v |-> <<>>]

\* st.date_input returns a date, or a tuple of one date (range selection in
\* progress) or of two dates, each within [min_value, max_value].
PeriodoValues(data_min, data_max) ==
    LET D == {data_min, data_max}
    IN  {[kind |-> "date", v |-> <<d>>] : d \in D}
        \cup {[kind |-> "tuple", v |-> <<d>>] : d \in D}
        \cup {[kind |-> "tuple", v |-> <<a, b>>] : a \in D, b \in D}

\* Faulty variant of Bounds: the bounds put in order.
BoundsOrdered(p) ==
    LET a == to_datetime(p.v[1])
        b == IF p.kind = "tuple" THEN to_datetime(p.v[2]) ELSE a
    IN  IF a > b THEN <<b, a>> ELSE <<a, b>>

\* Lines 73-76: the two bounds as Timestamps.
Bounds(p) ==
    IF p.kind = "tuple"
    THEN <<to_datetime(p.v[1]), to_datetime(p.v[2])>>
    ELSE <<to_datetime(p.v[1]), to_datetime(p.v[1])>>

SliderVals == {0, 40, SliderMax}
SliderRanges == {f \in SliderVals \X SliderVals : f[1] <= f[2]}
AguaOptions == {"Todos", "Sim", "Nao"}
TipoOptions == {"Todos", "Climaticos", "Socioeconomicos"}

map_agua(opcao) == IF opcao = "Sim" THEN 1 ELSE 0

(***************************************************************************)
(* Filters, lines 111-123: four boolean masks applied one after another.   *)
(***************************************************************************)
FilterData(t, ini, fim) ==
    [t EXCEPT !.rows =
        SelectSeq(t.rows, LAMBDA r : r["data"] >= ini /\ r["data"] <= fim)]

FilterVul(t, faixa) ==
    [t EXCEPT !.rows =
        SelectSeq(t.rows, LAMBDA r : r["indice_vulnerabilidade"] >= faixa[1]
                                     /\ r["indice_vulnerabilidade"] <= faixa[2])]

FilterAgua(t, opcao) ==
    IF opcao # "Todos"
    THEN [t EXCEPT !.rows =
            SelectSeq(t.rows, LAMBDA r : r["acesso_agua_potavel"] = map_agua(opcao))]
    ELSE t

\* Faulty variant of FilterTipo: an absent flag column fails every record.
FilterTipoAbsentFails(t, opcao) ==
    IF opcao = "Climaticos"
    THEN [t EXCEPT !.rows =
            SelectSeq(t.rows, LAMBDA r : "variacao_climatica" \in t.columns
                                         /\ r["variacao_climatica"] = 1)]
    ELSE IF opcao = "Socioeconomicos"
    THEN [t EXCEPT !.rows =
            SelectSeq(t.rows, LAMBDA r : "flag_incidente_alta" \in t.columns
                                         /\ r["flag_incidente_alta"] = 1)]
    ELSE t

FilterTipo(t, opcao) ==
    IF opcao = "Climaticos" /\ "variacao_climatica" \in t.columns
    THEN [t EXCEPT !.rows =
            SelectSeq(t.rows, LAMBDA r : r["variacao_climatica"] = 1)]
    ELSE IF opcao = "Socioeconomicos" /\ "flag_incidente_alta" \in t.columns
    THEN [t EXCEPT !.rows =
            SelectSeq(t.rows, LAMBDA r : r["flag_incidente_alta"] = 1)]
    ELSE t

(***************************************************************************)
(* Chart 1, lines 134-144: sort by date and the two rolling means.         *)
(***************************************************************************)
SeqPerms(s) ==
    {[i \in 1..Len(s) |-> s[f[i]]] : f \in Permutations(1..Len(s))}

\* The orders sort_values("data") can return: ascending by date, records of
\* the same date in any order (the default sort is not stable).
RECURSIVE SortOrders(_)
SortOrders(rows) ==
    IF rows = <<>> THEN {<<>>}
    ELSE LET m == SeqMin([i \in 1..Len(rows) |-> rows[i]["data"]])
             first == SelectSeq(rows, LAMBDA r : r["data"] = m)
             rest == SelectSeq(rows, LAMBDA r : r["data"] # m)
         IN  {p \o q : p \in SeqPerms(first), q \in SortOrders(rest)}

\* Faulty variant of WindowSum: no value ever leaves the window.
WindowSumGrowing(s, w, i) == SumSeq(SubSeq(s, 1, i))

\* Sum of the window ending at i, kept as pandas keeps it: the previous
\* window's sum plus the entering value minus the leaving one.
RECURSIVE WindowSum(_, _, _)
WindowSum(s, w, i) ==
    IF i = 0 THEN 0
    ELSE WindowSum(s, w, i - 1) + s[i] - (IF i > w THEN s[i - w] ELSE 0)

\* Series.rolling(w, min_periods=1).mean(): <<sum, count>> at each position.
rolling_mean(s, w) ==
    [i \in 1..Len(s) |-> <<WindowSum(s, w, i), IF i < w THEN i ELSE w>>]

\* A column used verbatim: each value v as the quotient <<v, 1>>.
Verbatim(s) == [i \in 1..Len(s) |-> <<s[i], 1>>]

chuva_rol_of(t) ==
    IF "chuva_rol_30d" \in t.columns
    THEN Verbatim(Column(t, "chuva_rol_30d"))
    ELSE rolling_mean(Column(t, "chuvas_reais_mm"), JanelaChuva)

producao_rol_of(t) ==
    IF "producao_rol_7d" \in t.columns
    THEN Verbatim(Column(t, "producao_rol_7d"))
    ELSE rolling_mean(Column(t, "volume_producao_tons"), JanelaProducao)

(***************************************************************************)
(* Chart 3, line 198, and chart 4, line 218.                               *)
(***************************************************************************)
agua_label(v) == IF v = 0 THEN "Sem acesso" ELSE "Com acesso"

\* df["agua_label"] = ...: the column is added to df itself.
WithAguaLabel(t) ==
    [t EXCEPT !.columns = @ \cup {"agua_label"},
              !.rows = [i \in 1..Len(t.rows) |->
                         [c \in t.columns \cup {"agua_label"} |->
                            IF c = "agua_label"
                            THEN agua_label(t.rows[i]["acesso_agua_potavel"])
                            ELSE t.rows[i][c]]]]

\* select_dtypes(include=[np.number]): neither the dates nor the labels.
NumericColumns(t) == t.columns \ {"data", "agua_label"}

(***************************************************************************)
(* Chart 5, lines 236-245: the five components, each <<num, den>>.         *)
(***************************************************************************)
\* Faulty variant of Clip: the value is not clamped.
ClipNone(x, lo, hi) == x

\* np.clip(x, lo, hi)
Clip(x, lo, hi) == IF x < lo THEN lo ELSE IF x > hi THEN hi ELSE x

\* np.mean of a series of quotients num[i] / den.
MeanOver(nums, den) == <<SumSeq(nums), den * Len(nums)>>

comp_clima(t) ==
    MeanOver([i \in 1..Len(t.rows) |->
                Clip(Abs(t.rows[i]["anomalia_chuva_mm"]), 0, EscalaClima)],
             EscalaClima)

comp_prod(t) ==
    MeanOver([i \in 1..Len(t.rows) |->
                Clip(EscalaProducao - t.rows[i]["volume_producao_tons"], 0, EscalaProducao)],
             EscalaProducao)

comp_doencas(t) ==
    MeanOver([i \in 1..Len(t.rows) |->
                Clip(t.rows[i]["incidencia_doencas"], 0, EscalaDoencas)],
             EscalaDoencas)

comp_agua(t) ==
    <<Len(t.rows) - SumSeq(Column(t, "acesso_agua_potavel")), Len(t.rows)>>

comp_food(t) ==
    MeanOver([i \in 1..Len(t.rows) |->
                Clip(EscalaAlimentar - t.rows[i]["indicador_seguranca_alimentar"], 0, EscalaAlimentar)],
             EscalaAlimentar)

RadarValues(t) ==
    LET v == <<comp_clima(t), comp_prod(t), comp_doencas(t), comp_agua(t), comp_food(t)>>
    IN  v \o SubSeq(v, 1, 1)

(***************************************************************************)
(* The session.                                                            *)
(***************************************************************************)
\* The names of one pass, as a fresh execution of the script finds them.
FreshPass ==
    /\ exc' = ""
    /\ out' = <<>>
    /\ _df' = EmptyTable
    /\ periodo' = UnsetPeriodo
    /\ dt_ini' = NoTime
    /\ dt_fim' = NoTime
    /\ faixa_vul' = <<0, 0>>
    /\ agua_opcao' = ""
    /\ tipo_opcao' = ""
    /\ df' = EmptyTable
    /\ df_sorted' = EmptyTable
    /\ chuva_rol' = <<>>
    /\ producao_rol' = <<>>
    /\ numeric_cols' = {}
    /\ radar_values' = <<>>

Init ==
    /\ \/ file = MissingFile
       \/ \E n \in RowCounts, s \in 1..NSeeds, opt \in OptionalSets : file = File(n, s, opt)
       \/ \E n \in 1..MaxSmallRows, s \in 1..NSeeds : file = NoDateColumnFile(n, s)
       \/ \E n \in 1..MaxSmallRows, s \in 1..NSeeds : file = BadDatesFile(n, s)
    /\ cache = <<>>
    /\ reads = 0
    /\ calls = 0
    /\ passes = 1
    /\ pc = "start"
    /\ exc = ""
    /\ out = <<>>
    /\ _df = EmptyTable
    /\ periodo = UnsetPeriodo
    /\ dt_ini = NoTime
    /\ dt_fim = NoTime
    /\ faixa_vul = <<0, 0>>
    /\ agua_opcao = ""
    /\ tipo_opcao = ""
    /\ df = EmptyTable
    /\ df_sorted = EmptyTable
    /\ chuva_rol = <<>>
    /\ producao_rol = <<>>
    /\ numeric_cols = {}
    /\ radar_values = <<>>

\* Lines 34-40: page configuration and title.
PageHeader ==
    /\ pc = "start"
    /\ out' = Append(out, Title)
    /\ pc' = "check"
    /\ UNCHANGED <<file, cache, reads, calls, passes, exc, _df, periodo,
                   dt_ini, dt_fim, faixa_vul, agua_opcao, tipo_opcao, df,
                   df_sorted, chuva_rol, producao_rol, numeric_cols, radar_values>>

\* Faulty variant of CheckFile: the message is shown, the pass goes on.
CheckFileNoStop ==
    /\ pc = "check"
    /\ out' = IF ~file.exists THEN Append(out, MsgArquivo) ELSE out
    /\ pc' = "load"
    /\ UNCHANGED <<file, cache, reads, calls, passes, exc, _df, periodo,
                   dt_ini, dt_fim, faixa_vul, agua_opcao, tipo_opcao, df,
                   df_sorted, chuva_rol, producao_rol, numeric_cols, radar_values>>

\* Lines 53-56: st.error and st.stop when the file is absent.
CheckFile ==
    /\ pc = "check"
    /\ IF ~file.exists
       THEN /\ out' = Append(out, MsgArquivo)
            /\ pc' = "stopped"
       ELSE /\ out' = out
            /\ pc' = "load"
    /\ UNCHANGED <<file, cache, reads, calls, passes, exc, _df, periodo,
                   dt_ini, dt_fim, faixa_vul, agua_opcao, tipo_opcao, df,
                   df_sorted, chuva_rol, producao_rol, numeric_cols, radar_values>>

\* Faulty variant of carregar_dados: the stored value is never used.
carregar_dadosUncached ==
    /\ pc = "load"
    /\ calls' = calls + 1
    /\ reads' = reads + 1
    /\ IF read_csv(file).raised # ""
       THEN /\ exc' = read_csv(file).raised
            /\ pc' = "crashed"
            /\ UNCHANGED <<cache, _df>>
       ELSE /\ cache' = (DATA_PATH :> read_csv(file).table)
            /\ _df' = read_csv(file).table
            /\ pc' = "sidebar"
            /\ exc' = exc
    /\ UNCHANGED <<file, passes, out, periodo, dt_ini, dt_fim, faixa_vul,
                   agua_opcao, tipo_opcao, df, df_sorted, chuva_rol,
                   producao_rol, numeric_cols, radar_values>>

\* Lines 45-48 and 58: the cached loader.  st.cache_data returns the stored
\* value for a path it has seen return; otherwise it runs the function and
\* stores what it returns (an exception is not stored).
carregar_dados ==
    /\ pc = "load"
    /\ calls' = calls + 1
    /\ IF DATA_PATH \in DOMAIN cache
       THEN /\ _df' = cache[DATA_PATH]
            /\ pc' = "sidebar"
            /\ UNCHANGED <<cache, reads, exc>>
       ELSE LET r == read_csv(file)
            IN  /\ reads' = reads + 1
                /\ IF r.raised # ""
                   THEN /\ exc' = r.raised
                        /\ pc' = "crashed"
                        /\ UNCHANGED <<cache, _df>>
                   ELSE /\ cache' = (DATA_PATH :> r.table)
                        /\ _df' = r.table
                        /\ pc' = "sidebar"
                        /\ exc' = exc
    /\ UNCHANGED <<file, passes, out, periodo, dt_ini, dt_fim, faixa_vul,
                   agua_opcao, tipo_opcao, df, df_sorted, chuva_rol,
                   producao_rol, numeric_cols, radar_values>>

\* Lines 63-79: sidebar header, the period control and the two bounds.
SidebarPeriodo ==
    /\ pc = "sidebar"
    /\ IF _df.date_dtype # "datetime64"
       THEN \* line 66: .date() on the minimum of a column of texts
            /\ out' = Append(out, Header("Filtros"))
            /\ exc' = "AttributeError"
            /\ pc' = "crashed"
            /\ UNCHANGED <<periodo, dt_ini, dt_fim>>
       ELSE LET data_min == DateOf(SeqMin(Column(_df, "data")))
                data_max == DateOf(SeqMax(Column(_df, "data")))
                shown == out \o <<Header("Filtros"), Widget("Periodo")>>
            IN  \E p \in PeriodoValues(data_min, data_max) :
                  /\ periodo' = p
                  /\ IF p.kind = "tuple" /\ Len(p.v) < 2
                     THEN \* line 74: periodo[1] on a tuple of one date
                          /\ out' = shown
                          /\ exc' = "IndexError"
                          /\ pc' = "crashed"
                          /\ UNCHANGED <<dt_ini, dt_fim>>
                     ELSE /\ dt_ini' = Bounds(p)[1]
                          /\ dt_fim' = Bounds(p)[2]
                          /\ out' = IF Bounds(p)[1] > Bounds(p)[2]
                                    THEN Append(shown, MsgPeriodo)
                                    ELSE shown
                          /\ pc' = "controls"
                          /\ exc' = exc
    /\ UNCHANGED <<file, cache, reads, calls, passes, _df, faixa_vul,
                   agua_opcao, tipo_opcao, df, df_sorted, chuva_rol,
                   producao_rol, numeric_cols, radar_values>>

\* Lines 82-106: the slider and the two selectboxes.
SidebarControls ==
    /\ pc = "controls"
    /\ \E f \in SliderRanges, a \in AguaOptions, t \in TipoOptions :
         /\ faixa_vul' = f
         /\ agua_opcao' = a
         /\ tipo_opcao' = t
    /\ out' = out \o <<Widget("Faixa do Indice de Vulnerabilidade"),
                       Widget("Acesso a Agua Potavel"), Widget("Foco do evento")>>
    /\ pc' = "filter"
    /\ UNCHANGED <<file, cache, reads, calls, passes, exc, _df, periodo,
                   dt_ini, dt_fim, df, df_sorted, chuva_rol, producao_rol,
                   numeric_cols, radar_values>>

\* Lines 111-123: df = _df.copy() and the four masks.
ApplyFilters ==
    /\ pc = "filter"
    /\ df' = FilterTipo(FilterAgua(FilterVul(FilterData(_df, dt_ini, dt_fim),
                                             faixa_vul), agua_opcao), tipo_opcao)
    /\ pc' = "empty_check"
    /\ UNCHANGED <<file, cache, reads, calls, passes, exc, out, _df, periodo,
                   dt_ini, dt_fim, faixa_vul, agua_opcao, tipo_opcao,
                   df_sorted, chuva_rol, producao_rol, numeric_cols, radar_values>>

\* Faulty variant of EmptyCheck: the advisory is shown, the pass goes on.
EmptyCheckNoStop ==
    /\ pc = "empty_check"
    /\ out' = IF df.rows = <<>> THEN Append(out, MsgVazio) ELSE out
    /\ pc' = "viz1"
    /\ UNCHANGED <<file, cache, reads, calls, passes, exc, _df, periodo,
                   dt_ini, dt_fim, faixa_vul, agua_opcao, tipo_opcao, df,
                   df_sorted, chuva_rol, producao_rol, numeric_cols, radar_values>>

\* Lines 125-127: st.warning and st.stop on an empty view.
EmptyCheck ==
    /\ pc = "empty_check"
    /\ IF df.rows = <<>>
       THEN /\ out' = Append(out, MsgVazio)
            /\ pc' = "stopped"
       ELSE /\ out' = out
            /\ pc' = "viz1"
    /\ UNCHANGED <<file, cache, reads, calls, passes, exc, _df, periodo,
                   dt_ini, dt_fim, faixa_vul, agua_opcao, tipo_opcao, df,
                   df_sorted, chuva_rol, producao_rol, numeric_cols, radar_values>>

\* Lines 132-171: chart 1.
Viz1 ==
    /\ pc = "viz1"
    /\ \E sorted \in SortOrders(df.rows) :
         /\ df_sorted' = [df EXCEPT !.rows = sorted]
         /\ chuva_rol' = chuva_rol_of([df EXCEPT !.rows = sorted])
         /\ producao_rol' = producao_rol_of([df EXCEPT !.rows = sorted])
    /\ out' = Append(out, Chart("fig_line"))
    /\ pc' = "viz2"
    /\ UNCHANGED <<file, cache, reads, calls, passes, exc, _df, periodo,
                   dt_ini, dt_fim, faixa_vul, agua_opcao, tipo_opcao, df,
                   numeric_cols, radar_values>>

\* Lines 176-191: chart 2.
Viz2 ==
    /\ pc = "viz2"
    /\ out' = Append(out, Chart("fig_scatter"))
    /\ pc' = "viz3"
    /\ UNCHANGED <<file, cache, reads, calls, passes, exc, _df, periodo,
                   dt_ini, dt_fim, faixa_vul, agua_opcao, tipo_opcao, df,
                   df_sorted, chuva_rol, producao_rol, numeric_cols, radar_values>>

\* Lines 196-211: chart 3, built from df with the label column added.
Viz3 ==
    /\ pc = "viz3"
    /\ df' = WithAguaLabel(df)
    /\ out' = Append(out, Chart("fig_box"))
    /\ pc' = "viz4"
    /\ UNCHANGED <<file, cache, reads, calls, passes, exc, _df, periodo,
                   dt_ini, dt_fim, faixa_vul, agua_opcao, tipo_opcao,
                   df_sorted, chuva_rol, producao_rol, numeric_cols, radar_values>>

\* Lines 216-229: chart 4.
Viz4 ==
    /\ pc = "viz4"
    /\ numeric_cols' = NumericColumns(df)
    /\ out' = Append(out, Chart("fig_heat"))
    /\ pc' = "viz5"
    /\ UNCHANGED <<file, cache, reads, calls, passes, exc, _df, periodo,
                   dt_ini, dt_fim, faixa_vul, agua_opcao, tipo_opcao, df,
                   df_sorted, chuva_rol, producao_rol, radar_values>>

\* Lines 234-267: chart 5 and the footer.
Viz5 ==
    /\ pc = "viz5"
    /\ radar_values' = RadarValues(df)
    /\ out' = Append(out, Chart("fig_radar"))
    /\ pc' = "done"
    /\ UNCHANGED <<file, cache, reads, calls, passes, exc, _df, periodo,
                   dt_ini, dt_fim, faixa_vul, agua_opcao, tipo_opcao, df,
                   df_sorted, chuva_rol, producao_rol, numeric_cols>>

\* A rerun of the script (an interaction or a reload): the next pass.
Rerun ==
    /\ pc \in {"stopped", "crashed", "done"}
    /\ passes < MaxPasses
    /\ passes' = passes + 1
    /\ pc' = "start"
    /\ FreshPass
    /\ UNCHANGED <<file, cache, reads, calls>>

Next ==
    \/ PageHeader
    \/ CheckFile
    \/ carregar_dados
    \/ SidebarPeriodo
    \/ SidebarControls
    \/ ApplyFilters
    \/ EmptyCheck
    \/ Viz1
    \/ Viz2
    \/ Viz3
    \/ Viz4
    \/ Viz5
    \/ Rerun

Spec == Init /\ [][Next]_vars

(***************************************************************************)
(* Vocabulary of the properties.                                           *)
(***************************************************************************)
Emitted == {out[i] : i \in 1..Len(out)}
ChartsEmitted == {e \in Emitted : e.kind = "chart"}
WidgetsEmitted == {e \in Emitted : e.kind = "widget"}

\* The controls have returned and the filter step has run in this pass.
Filtered == tipo_opcao # "" /\ pc # "filter"

\* The pass is past chart 1.
Plotted == Chart("fig_line") \in Emitted

Project(r, cols) == [c \in cols |-> r[c]]
ProjectRows(rows, cols) == [i \in 1..Len(rows) |-> Project(rows[i], cols)]

\* The four predicates of the filter criteria on one record of a dataset
\* with columns cols, for bounds ini and fim.
DateOk(r, ini, fim) == ini <= r["data"] /\ r["data"] <= fim
VulOk(r) ==
    faixa_vul[1] <= r["indice_vulnerabilidade"]
    /\ r["indice_vulnerabilidade"] <= faixa_vul[2]
AguaOk(r) ==
    \/ agua_opcao = "Todos"
    \/ agua_opcao = "Sim" /\ r["acesso_agua_potavel"] = 1
    \/ agua_opcao = "Nao" /\ r["acesso_agua_potavel"] = 0
FlagOk(r, cols, flag) == flag \notin cols \/ r[flag] = 1
TipoOk(r, cols) ==
    \/ tipo_opcao = "Todos"
    \/ tipo_opcao = "Climaticos" /\ FlagOk(r, cols, "variacao_climatica")
    \/ tipo_opcao = "Socioeconomicos" /\ FlagOk(r, cols, "flag_incidente_alta")
AllFour(r, cols, ini, fim) ==
    DateOk(r, ini, fim) /\ VulOk(r) /\ AguaOk(r) /\ TipoOk(r, cols)

\* The records of the loaded dataset that satisfy the four predicates.
Satisfying(ini, fim) ==
    SelectSeq(_df.rows, LAMBDA r : AllFour(r, _df.columns, ini, fim))

(***************************************************************************)
(* C1.  After the filter step the filtered view is never larger than the   *)
(* dataset and holds exactly the dataset's records that satisfy the four   *)
(* predicates together; an event focus whose flag column is absent passes  *)
(* every record.                                                           *)
(***************************************************************************)
C1_FilteredViewExact ==
    Filtered =>
        /\ Len(df.rows) <= Len(_df.rows)
        /\ ProjectRows(df.rows, _df.columns) = Satisfying(dt_ini, dt_fim)

C1_Witness ==
    /\ Filtered
    /\ tipo_opcao = "Socioeconomicos"
    /\ "flag_incidente_alta" \notin _df.columns
    /\ 0 < Len(df.rows)
    /\ Len(df.rows) < Len(_df.rows)

(***************************************************************************)
(* C2.  A pass whose filtered view is empty ends at the empty-result       *)
(* advisory: nothing is derived, no chart is emitted, the water component  *)
(* is never divided by zero records, and the advisory is not the message   *)
(* of a missing file.                                                      *)
(***************************************************************************)
C2_EmptyViewStops ==
    /\ (Filtered /\ df.rows = <<>> /\ pc # "empty_check") =>
          /\ pc = "stopped"
          /\ out[Len(out)] = MsgVazio
          /\ MsgVazio # MsgArquivo
          /\ MsgArquivo \notin Emitted
          /\ ChartsEmitted = {}
          /\ df_sorted = EmptyTable
          /\ chuva_rol = <<>>
          /\ producao_rol = <<>>
          /\ numeric_cols = {}
          /\ radar_values = <<>>
    /\ radar_values # <<>> => radar_values[4][2] > 0

C2_Witness ==
    /\ Filtered
    /\ df.rows = <<>>
    /\ pc = "stopped"
    /\ dt_ini <= dt_fim

(***************************************************************************)
(* C3.  With a start date after the end date the pass shows the            *)
(* invalid-range advisory, goes on, and filters with the bounds as given.  *)
(***************************************************************************)
Inverted ==
    /\ periodo.kind = "tuple"
    /\ Len(periodo.v) = 2
    /\ periodo.v[1] > periodo.v[2]

C3_InvertedRangeLiteral ==
    Inverted =>
        /\ MsgPeriodo \in Emitted
        /\ dt_ini = to_datetime(periodo.v[1])
        /\ dt_fim = to_datetime(periodo.v[2])
        /\ pc # "crashed"
        /\ pc = "stopped" => Filtered
        /\ Filtered =>
             ProjectRows(df.rows, _df.columns)
               = Satisfying(to_datetime(periodo.v[1]), to_datetime(periodo.v[2]))

C3_Witness ==
    /\ Inverted
    /\ Filtered
    /\ pc = "stopped"
    /\ Len(_df.rows) > 1

(***************************************************************************)
(* C4.  With the input file absent the pass shows the blocking message     *)
(* right after the page title and halts: the loader is not called, no      *)
(* control is created, no filter is applied, no chart is emitted.          *)
(***************************************************************************)
C4_MissingFileHalts ==
    (~file.exists /\ pc \notin {"start", "check"}) =>
        /\ pc = "stopped"
        /\ out = <<Title, MsgArquivo>>
        /\ calls = 0
        /\ reads = 0
        /\ _df = EmptyTable
        /\ periodo = UnsetPeriodo
        /\ ~Filtered
        /\ df = EmptyTable

C4_Witness ==
    /\ ~file.exists
    /\ pc = "stopped"
    /\ passes > 1

(***************************************************************************)
(* C5.  With the file present but its date column missing or unparseable,  *)
(* the load fails (no dataset is returned or cached) and the pass halts    *)
(* before any filter control.                                              *)
(***************************************************************************)
BadDateColumn ==
    /\ file.exists
    /\ \/ "data" \notin file.columns
       \/ \E i \in 1..Len(file.rows) : file.rows[i]["data"] = NotADate

C5_ParseErrorHalts ==
    (BadDateColumn /\ pc \notin {"start", "check", "load"}) =>
        /\ pc \in {"stopped", "crashed"}
        /\ _df = EmptyTable
        /\ DATA_PATH \notin DOMAIN cache
        /\ WidgetsEmitted = {}

(***************************************************************************)
(* C6.  As claimed: the file is read at most once per path in a session.   *)
(***************************************************************************)
C6_ReadAtMostOnce == reads <= 1

(***************************************************************************)
(* C6, amended.  Once a call of the loader has returned a dataset, the     *)
(* file has been read exactly once, and every later call returns the       *)
(* cached dataset, equal to the parsed file, without reading; while no     *)
(* call has returned (each raised), every call has read the file.          *)
(***************************************************************************)
C6_CachedAfterSuccess ==
    IF DATA_PATH \in DOMAIN cache
    THEN /\ reads = 1
         /\ cache[DATA_PATH] = read_csv(file).table
         /\ pc \notin {"start", "check", "load"} => _df = cache[DATA_PATH]
    ELSE reads = calls

C6_Witness ==
    /\ calls > 1
    /\ reads = 1
    /\ pc = "sidebar"
    /\ _df = read_csv(file).table

(***************************************************************************)
(* C7.  The cached dataset stays as loaded, and each of the five chart     *)
(* builders finds the filtered view with the rows and columns the filter   *)
(* step produced.                                                          *)
(***************************************************************************)
C7_NoInPlaceMutation ==
    /\ DATA_PATH \in DOMAIN cache => cache[DATA_PATH] = read_csv(file).table
    /\ pc \in {"viz1", "viz2", "viz3", "viz4", "viz5"} =>
          /\ df.columns = _df.columns
          /\ df.rows = Satisfying(dt_ini, dt_fim)

(***************************************************************************)
(* C8.  Each of the five components plotted by the radar chart lies in     *)
(* [0, 1].                                                                 *)
(***************************************************************************)
InUnitInterval(q) == q[2] > 0 /\ 0 <= q[1] /\ q[1] <= q[2]

C8_ComponentsInUnitInterval ==
    radar_values # <<>> =>
        /\ Len(df.rows) > 0
        /\ \A k \in 1..5 : InUnitInterval(radar_values[k])

C8_Witness ==
    /\ radar_values # <<>>
    /\ \E i \in 1..Len(df.rows) : Abs(df.rows[i]["anomalia_chuva_mm"]) > EscalaClima
    /\ \E i \in 1..Len(df.rows) : df.rows[i]["volume_producao_tons"] > EscalaProducao

(***************************************************************************)
(* C9.  Vocabulary: the mean of the window trailing values ending at       *)
(* position i (all the values up to i while fewer than window exist).      *)
(***************************************************************************)
RECURSIVE SumRange(_, _, _)
SumRange(s, lo, hi) == IF lo > hi THEN 0 ELSE s[hi] + SumRange(s, lo, hi - 1)

TrailingMean(s, w, i) ==
    LET lo == IF i < w THEN 1 ELSE i - w + 1
    IN  <<SumRange(s, lo, i), i - lo + 1>>

SameQuotient(a, b) == a[2] > 0 /\ b[2] > 0 /\ a[1] * b[2] = b[1] * a[2]

IsRollingMean(series, s, w) ==
    /\ Len(series) = Len(s)
    /\ \A i \in 1..Len(s) : SameQuotient(series[i], TrailingMean(s, w, i))

Occurrences(rows, r) == Cardinality({i \in 1..Len(rows) : rows[i] = r})

\* df_sorted is the filtered view in ascending order of date.
SortedView ==
    /\ df_sorted.columns = _df.columns
    /\ Len(df_sorted.rows) = Len(df.rows)
    /\ \A i \in 1..Len(df_sorted.rows) :
         /\ i > 1 => df_sorted.rows[i - 1]["data"] <= df_sorted.rows[i]["data"]
         /\ Occurrences(df_sorted.rows, df_sorted.rows[i])
              = Occurrences(ProjectRows(df.rows, _df.columns), df_sorted.rows[i])

Aligned ==
    /\ SortedView
    /\ Len(chuva_rol) = Len(df_sorted.rows)
    /\ Len(producao_rol) = Len(df_sorted.rows)

(***************************************************************************)
(* C9.  As claimed: the two series of chart 1 are aligned with the sorted  *)
(* view and are its rolling means of window 30 and 7.                      *)
(***************************************************************************)
C9_SeriesAreRollingMeans ==
    Plotted =>
        /\ Aligned
        /\ IsRollingMean(chuva_rol, Column(df_sorted, "chuvas_reais_mm"), JanelaChuva)
        /\ IsRollingMean(producao_rol, Column(df_sorted, "volume_producao_tons"), JanelaProducao)

(***************************************************************************)
(* C9, amended.  The two series are aligned with the sorted view; each is  *)
(* the rolling mean of its window when the dataset has no precomputed      *)
(* column for it, and the precomputed column of the sorted view, value by  *)
(* value, when it has one.                                                 *)
(***************************************************************************)
C9_SeriesAlignedMeansOrVerbatim ==
    Plotted =>
        /\ Aligned
        /\ IF "chuva_rol_30d" \in _df.columns
           THEN \A i \in 1..Len(chuva_rol) :
                  SameQuotient(chuva_rol[i], <<df_sorted.rows[i]["chuva_rol_30d"], 1>>)
           ELSE IsRollingMean(chuva_rol, Column(df_sorted, "chuvas_reais_mm"), JanelaChuva)
        /\ IF "producao_rol_7d" \in _df.columns
           THEN \A i \in 1..Len(producao_rol) :
                  SameQuotient(producao_rol[i], <<df_sorted.rows[i]["producao_rol_7d"], 1>>)
           ELSE IsRollingMean(producao_rol, Column(df_sorted, "volume_producao_tons"), JanelaProducao)

C9_Witness ==
    /\ Plotted
    /\ "chuva_rol_30d" \notin _df.columns
    /\ "producao_rol_7d" \notin _df.columns
    /\ Len(df_sorted.rows) > JanelaChuva
    /\ \E i \in 2..Len(df_sorted.rows) :
         df_sorted.rows[i]["data"] > df_sorted.rows[i - 1]["data"]

(***************************************************************************)
(* C10.  Whatever the period control returns, both bounds are defined and  *)
(* the pass goes on without an error; a single date gives equal bounds.    *)
(***************************************************************************)
C10_PeriodoGivesBounds ==
    periodo # UnsetPeriodo =>
        /\ exc = ""
        /\ pc # "crashed"
        /\ dt_ini # NoTime
        /\ dt_fim # NoTime
        /\ periodo.kind = "date" => dt_ini = dt_fim

====
